---- MODULE Spec2Model ----
(***************************************************************************)
(* entropy (src/main.go): a watch loop that classifies every file created  *)
(* directly under the watched root "entropy" by an ordered rule list or,   *)
(* failing that, by a rate-limited suggestion worker, and moves the file   *)
(* into the resolved subfolder.                                            *)
(*                                                                         *)
(* Strings are sequences of one-character strings, so that trimming,       *)
(* prefix and substring tests, path joining and pattern matching are       *)
(* computed character by character as the Go library functions do.         *)
(* Time is counted in milliseconds and advances in steps of TickMs.        *)
(***************************************************************************)
EXTENDS Integers, Sequences, FiniteSets, TLC

(***************************************************************************)
(* Bounds of the model.                                                    *)
(***************************************************************************)
\* Number of files the user drops into the watched root.
MaxDrops == 2

\* Number of errors the watcher reports.
MaxErrors == 1

\* Number of times a directory is closed to the program.
MaxChmods == 1

(***************************************************************************)
(* Program constants.                                                      *)
(***************************************************************************)
\* make(chan Job, 100)
JobQueueCap == 100

\* rate.Every(3*time.Second)
LimiterEveryMs == 3000

\* rate.NewLimiter(..., 1)
LimiterBurst == 1

\* time.Sleep(500 * time.Millisecond)
SettleMs == 500

\* The capacity of a channel made without a buffer.
UnbufferedCap == Len(<< >>)

\* make(chan string, 1)
ResultChCap == 1

\* Granularity of the clock: the settle delay is the smallest delay of the
\* program, and the limiter's interval is a multiple of it.
TickMs == SettleMs

(***************************************************************************)
(* Strings.                                                                *)
(***************************************************************************)
EmptyStr == << >>

Root == <<"e","n","t","r","o","p","y">>

Unsorted == <<"U","n","s","o","r","t","e","d">>

Slash == "/"

\* unicode.IsSpace over the characters the model uses.
IsSpace(c) == c \in {" ", "\t", "\n", "\r"}

Min(a, b) == IF a < b THEN a ELSE b

Max(a, b) == IF a > b THEN a ELSE b

\* F of the value of v, v being evaluated once, as the variable of a short
\* declaration (x := v) is.
Let(v, F(_)) == CHOOSE r \in {F(x) : x \in {v}} : TRUE

\* F of the values of v and w.
Let2(v, w, F(_, _)) == CHOOSE r \in {F(x, y) : x \in {v}, y \in {w}} : TRUE

\* strings.HasPrefix
HasPrefix(str, prefix) ==
    Let2(str, prefix, LAMBDA s, p :
        /\ Len(p) <= Len(s)
        /\ \A i \in 1..Len(p) : s[i] = p[i])

\* strings.HasSuffix
HasSuffix(str, suffix) ==
    Let2(str, suffix, LAMBDA s, p :
        /\ Len(p) <= Len(s)
        /\ \A i \in 1..Len(p) : s[Len(s) - Len(p) + i] = p[i])

\* strings.Contains
Contains(str, substr) ==
    Let2(str, substr, LAMBDA s, sub :
        \E k \in 0..(Len(s) - Len(sub)) :
            \A i \in 1..Len(sub) : s[k + i] = sub[i])

\* strings.TrimSpace: drop the leading and the trailing white space.
TrimSpace(str) ==
    Let(str, LAMBDA s :
        Let({i \in 1..Len(s) : ~IsSpace(s[i])}, LAMBDA nonSpace :
            IF nonSpace = {} THEN EmptyStr
            ELSE LET lo == CHOOSE i \in nonSpace : \A j \in nonSpace : i <= j
                     hi == CHOOSE i \in nonSpace : \A j \in nonSpace : i >= j
                 IN  SubSeq(s, lo, hi)))

UpperChars == <<"A","B","C","D","E","F","G","H","I","J","K","L","M",
                "N","O","P","Q","R","S","T","U","V","W","X","Y","Z">>

LowerChars == <<"a","b","c","d","e","f","g","h","i","j","k","l","m",
                "n","o","p","q","r","s","t","u","v","w","x","y","z">>

ToLowerChar(c) ==
    IF \E i \in 1..Len(UpperChars) : UpperChars[i] = c
    THEN LowerChars[CHOOSE i \in 1..Len(UpperChars) : UpperChars[i] = c]
    ELSE c

\* strings.ToLower
ToLower(str) == Let(str, LAMBDA s : [i \in 1..Len(s) |-> ToLowerChar(s[i])])

(***************************************************************************)
(* Paths (path/filepath with the separator "/").                           *)
(***************************************************************************)
\* The "/"-separated elements of s, empty elements included.
RECURSIVE SplitFrom(_, _, _)
SplitFrom(s, from, elem) ==
    Let2(from, elem, LAMBDA i, cur :
        IF i > Len(s) THEN <<cur>>
        ELSE IF s[i] = Slash THEN <<cur>> \o SplitFrom(s, i + 1, EmptyStr)
        ELSE SplitFrom(s, i + 1, Append(cur, s[i])))

Split(str) == Let(str, LAMBDA s : SplitFrom(s, 1, EmptyStr))

Dot == <<".">>

DotDot == <<".", ".">>

RECURSIVE JoinSegs(_)
JoinSegs(elems) ==
    Let(elems, LAMBDA segs :
        IF Len(segs) = 0 THEN EmptyStr
        ELSE IF Len(segs) = 1 THEN segs[1]
        ELSE segs[1] \o <<Slash>> \o JoinSegs(Tail(segs)))

\* The element stack of filepath.Clean: "." and empty elements are dropped,
\* ".." removes the element before it, and is kept where there is none to
\* remove (dropped at the root of a rooted path).
RECURSIVE CleanSegs(_, _, _)
CleanSegs(elems, stack, rooted) ==
    Let2(elems, stack, LAMBDA segs, out :
        IF Len(segs) = 0 THEN out
        ELSE LET seg == Head(segs)
                 rest == Tail(segs)
             IN  IF seg = EmptyStr \/ seg = Dot THEN CleanSegs(rest, out, rooted)
                 ELSE IF seg = DotDot
                 THEN IF Len(out) > 0 /\ out[Len(out)] # DotDot
                      THEN CleanSegs(rest, SubSeq(out, 1, Len(out) - 1), rooted)
                      ELSE IF rooted THEN CleanSegs(rest, out, rooted)
                      ELSE CleanSegs(rest, Append(out, seg), rooted)
                 ELSE CleanSegs(rest, Append(out, seg), rooted))

\* filepath.Clean
Clean(path) ==
    Let(path, LAMBDA p :
        IF p = EmptyStr THEN Dot
        ELSE Let2(p[1] = Slash, Split(p), LAMBDA rooted, segs :
                Let(JoinSegs(CleanSegs(segs, << >>, rooted)), LAMBDA body :
                    IF rooted THEN <<Slash>> \o body
                    ELSE IF body = EmptyStr THEN Dot
                    ELSE body)))

\* filepath.Join of two elements: empty elements are ignored, the rest is
\* joined by "/" and cleaned.
Join(elem1, elem2) ==
    Let2(elem1, elem2, LAMBDA a, b :
        IF a = EmptyStr /\ b = EmptyStr THEN EmptyStr
        ELSE IF a = EmptyStr THEN Clean(b)
        ELSE IF b = EmptyStr THEN Clean(a)
        ELSE Clean(a \o <<Slash>> \o b))

\* s without its trailing slashes.
RECURSIVE StripTrailingSlashes(_)
StripTrailingSlashes(str) ==
    Let(str, LAMBDA s :
        IF Len(s) > 0 /\ s[Len(s)] = Slash
        THEN StripTrailingSlashes(SubSeq(s, 1, Len(s) - 1))
        ELSE s)

\* Index of the last "/" of s, 0 when there is none.
LastSlash(str) ==
    Let(str, LAMBDA s :
        Let({i \in 1..Len(s) : s[i] = Slash}, LAMBDA at :
            IF at = {} THEN 0 ELSE CHOOSE i \in at : \A j \in at : i >= j))

\* filepath.Base
Base(path) ==
    Let(path, LAMBDA p :
        IF p = EmptyStr THEN Dot
        ELSE Let(StripTrailingSlashes(p), LAMBDA s :
                IF s = EmptyStr THEN <<Slash>>
                ELSE SubSeq(s, LastSlash(s) + 1, Len(s))))

\* filepath.Dir
Dir(path) == Let(path, LAMBDA p : Clean(SubSeq(p, 1, LastSlash(p))))

\* filepath.Ext: the suffix of the last element beginning at its last dot.
Ext(path) ==
    Let(path, LAMBDA p :
        Let({i \in (LastSlash(p) + 1)..Len(p) : p[i] = "."}, LAMBDA dots :
            IF dots = {} THEN EmptyStr
            ELSE SubSeq(p, CHOOSE i \in dots : \A j \in dots : i >= j, Len(p))))

(***************************************************************************)
(* Patterns: the regular expressions of the rules, matched as              *)
(* regexp.MatchString does (an unanchored search).  The syntax covered is  *)
(* the one the rules of the model use: literal characters, "\" escaping    *)
(* the next character, "." for any character but a newline, a postfix "*"  *)
(* on a single character, "^" at the start and "$" at the end.             *)
(***************************************************************************)
\* The atoms of pattern p from position i on: [any, ch, star].
RECURSIVE ParseAtoms(_, _)
ParseAtoms(p, from) ==
    Let(from, LAMBDA i :
        IF i > Len(p) THEN << >>
        ELSE LET escaped == p[i] = "\\" /\ i < Len(p)
                 at == IF escaped THEN i + 1 ELSE i
                 star == at < Len(p) /\ p[at + 1] = "*"
                 atom == [any |-> ~escaped /\ p[at] = ".", ch |-> p[at], star |-> star]
             IN  <<atom>> \o ParseAtoms(p, IF star THEN at + 2 ELSE at + 1))

AnchoredStart(p) == Len(p) > 0 /\ p[1] = "^"

\* The number of backslashes in a row that end at position to of p.
TrailingBackslashes(p, to) ==
    Cardinality({j \in 1..to : \A m \in j..to : p[m] = "\\"})

\* A final "$" is the anchor unless a backslash escapes it: the
\* backslashes before it pair up from the left, so it is escaped when
\* their number is odd.
AnchoredEnd(p) ==
    /\ Len(p) > 0
    /\ p[Len(p)] = "$"
    /\ TrailingBackslashes(p, Len(p) - 1) % 2 = 0

PatternAtoms(p) ==
    LET from == IF AnchoredStart(p) THEN 2 ELSE 1
        to == IF AnchoredEnd(p) THEN Len(p) - 1 ELSE Len(p)
    IN  Let(SubSeq(p, from, to), LAMBDA inner : ParseAtoms(inner, 1))

AtomMatches(atom, c) == IF atom.any THEN c # "\n" ELSE atom.ch = c

\* Whether atoms[i..] match s from position j on (to the end of s when
\* atEnd).
RECURSIVE MatchHere(_, _, _, _, _)
MatchHere(atoms, atom, s, pos, atEnd) ==
    Let2(atom, pos, LAMBDA i, j :
        IF i > Len(atoms) THEN (atEnd => j > Len(s))
        ELSE IF atoms[i].star
        THEN \E k \in j..(Len(s) + 1) :
                /\ \A m \in j..(k - 1) : AtomMatches(atoms[i], s[m])
                /\ MatchHere(atoms, i + 1, s, k, atEnd)
        ELSE /\ j <= Len(s)
             /\ AtomMatches(atoms[i], s[j])
             /\ MatchHere(atoms, i + 1, s, j + 1, atEnd))

\* regexp.MustCompile(pattern).MatchString(s)
MatchString(pattern, str) ==
    Let2(pattern, str, LAMBDA p, s :
        Let2(PatternAtoms(p), AnchoredEnd(p), LAMBDA atoms, atEnd :
            IF AnchoredStart(p)
            THEN MatchHere(atoms, 1, s, 1, atEnd)
            ELSE \E j \in 1..(Len(s) + 1) : MatchHere(atoms, 1, s, j, atEnd)))

(***************************************************************************)
(* The strings of the model: file names, rules, folders, answers.          *)
(***************************************************************************)
FileInvoice == <<"m","y","_","i","n","v","o","i","c","e",".","p","d","f">>

FileNotes == <<"n","o","t","e","s",".","x","y","z">>

FileLog == <<"a",".","L","O","G">>

\* The base names of the files the user drops into the watched root.
FileNames == {FileInvoice, FileNotes, FileLog}

FinanceInvoices == <<"F","i","n","/","I","n","v">>

Misc == <<"M","i","s","c">>

WorkReports == <<"W","o","r","k","/","R","e","p","o","r","t","s">>

Work == <<"W","o","r","k">>

\* The folders of an earlier run the watched root holds when the program
\* starts.
InitialFolders == {Work, WorkReports}

\* ".*invoice.*\.pdf$"
PatInvoicePdf == <<".","*","i","n","v","o","i","c","e",".","*","\\",".","p","d","f","$">>

\* "invoice"
PatInvoice == <<"i","n","v","o","i","c","e">>

\* "^my_"
PatMy == <<"^","m","y","_">>

NoRules == << >>

\* Two rules matching the same names: the first one is to win.
RulesInvoice ==
    << [Pattern |-> PatInvoicePdf, Target |-> FinanceInvoices],
       [Pattern |-> PatInvoice, Target |-> Misc] >>

\* A first rule whose target is the empty string.
RulesEmptyTarget ==
    << [Pattern |-> PatMy, Target |-> EmptyStr],
       [Pattern |-> PatInvoice, Target |-> Misc] >>

RuleLists == {NoRules, RulesInvoice, RulesEmptyTarget}

NoIgnore ==
    [OSDefaults |-> FALSE, Files |-> << >>, Extensions |-> << >>, Folders |-> << >>]

\* os_defaults: true, extensions: [".log"], folders: ["tmp"]
ReadmeIgnore ==
    [OSDefaults |-> TRUE,
     Files |-> << <<"T","h","u","m","b","s",".","d","b">> >>,
     Extensions |-> << <<".","l","o","g">> >>,
     Folders |-> << <<"t","m","p">> >>]

IgnoreConfigs == {ReadmeIgnore}

\* The configurations rules.yaml can hold (type Config).
Configs ==
    [Rules : RuleLists,
     GptEnabled : BOOLEAN,
     PreserveStructure : BOOLEAN,
     Ignore : IgnoreConfigs]

\* What client.Models.GenerateContent gives back: an error, or a text.
AnswerTexts ==
    { EmptyStr,
      <<" ", "\n">>,
      <<" "," ">> \o WorkReports \o <<" "," ">>,
      Misc }

ServiceError == [err |-> TRUE, text |-> EmptyStr]

Answers == {ServiceError} \cup {[err |-> FALSE, text |-> t] : t \in AnswerTexts}

(***************************************************************************)
(* The program with gpt.enabled false, on a wider choice of names, rule    *)
(* targets and ignore lists.                                               *)
(***************************************************************************)
FileHidden == <<".","_","a">>

FileThumbs == <<"T","h","u","m","b","s",".","d","b">>

FileTmp == <<"t","m","p","x">>

FileBlank == <<"w">>

FileUp == <<"u">>

FileOut == <<"x">>

FileHere == <<"d">>

FileAbs == <<"s">>

FilePad == <<"p">>

FileUnder == <<"q">>

\* A name that ends in a backslash.
FileSlosh == <<"b","\\">>

WideFileNames ==
    {FileNotes, FileLog, FileHidden, FileThumbs, FileTmp,
     FileBlank, FileUp, FileOut, FileHere, FileAbs, FilePad, FileUnder, FileSlosh}

Out == <<"O","u","t">>

\* One rule for each kind of target: " ", "..", "../Out", ".", "/abs",
\* " Misc ", "w/sub" (below what the first rule leaves in the root as a
\* file), and a rule whose pattern ends in an escaped backslash and the
\* anchor.
RulesWide ==
    << [Pattern |-> <<"^","w">>, Target |-> <<" ">>],
       [Pattern |-> <<"^","u">>, Target |-> DotDot],
       [Pattern |-> <<"^","x">>, Target |-> DotDot \o <<Slash>> \o Out],
       [Pattern |-> <<"^","d">>, Target |-> Dot],
       [Pattern |-> <<"^","s">>, Target |-> <<Slash,"a","b","s">>],
       [Pattern |-> <<"^","p">>, Target |-> <<" ">> \o Misc \o <<" ">>],
       [Pattern |-> <<"^","q">>, Target |-> FileBlank \o <<Slash,"s","u","b">>],
       [Pattern |-> <<"b","\\","\\","$">>, Target |-> Misc] >>

ConfigsNoGpt ==
    [Rules : {RulesWide},
     GptEnabled : {FALSE},
     PreserveStructure : BOOLEAN,
     Ignore : {NoIgnore, ReadmeIgnore}]

(***************************************************************************)
(* isIgnored (IgnorePolicy).                                               *)
(***************************************************************************)
HiddenPrefix == <<".","_">>

OSDefaultNames ==
    << <<".","D","S","_","S","t","o","r","e">>,
       <<"T","h","u","m","b","s",".","d","b">>,
       <<"d","e","s","k","t","o","p",".","i","n","i">> >>

InSeq(x, xs) == \E i \in 1..Len(xs) : xs[i] = x

\* The extensions compared as they are written, without strings.ToLower.
isIgnoredCaseSensitive(path, cfg) ==
    Let(Base(path), LAMBDA base :
        Let(Ext(base), LAMBDA ext :
            \/ HasPrefix(base, HiddenPrefix)
            \/ cfg.OSDefaults /\ InSeq(base, OSDefaultNames)
            \/ InSeq(base, cfg.Files)
            \/ \E i \in 1..Len(cfg.Extensions) : cfg.Extensions[i] = ext
            \/ \E i \in 1..Len(cfg.Folders) : Contains(path, cfg.Folders[i])))

\* Lines 55-96.
isIgnored(path, cfg) ==
    Let(Base(path), LAMBDA base :
        Let(ToLower(Ext(base)), LAMBDA ext :
            \/ HasPrefix(base, HiddenPrefix)
            \/ cfg.OSDefaults /\ InSeq(base, OSDefaultNames)
            \/ InSeq(base, cfg.Files)
            \/ \E i \in 1..Len(cfg.Extensions) : ToLower(cfg.Extensions[i]) = ext
            \/ \E i \in 1..Len(cfg.Folders) : Contains(path, cfg.Folders[i])))

(***************************************************************************)
(* matchRules (PatternMatcher): the target of the first rule whose pattern *)
(* matches, the empty string when none does.                               *)
(***************************************************************************)
RECURSIVE matchRulesFrom(_, _, _)
matchRulesFrom(filename, rules, from) ==
    Let(from, LAMBDA i :
        IF i > Len(rules) THEN EmptyStr
        ELSE IF MatchString(rules[i].Pattern, filename) THEN rules[i].Target
        ELSE matchRulesFrom(filename, rules, i + 1))

matchRules(filename, rules) ==
    Let(filename, LAMBDA name : matchRulesFrom(name, rules, 1))

(***************************************************************************)
(* State.                                                                  *)
(***************************************************************************)
VARIABLES
    config,         \* rules.yaml as loaded (never changes)
    dirs,           \* the directories that exist (cleaned relative paths)
    files,          \* the regular files that exist: path -> content
    nextFile,       \* the content the next dropped file gets
    drops,          \* the files the user has dropped so far
    perms,          \* the directories the program may not read (list) and
                    \* those it may not search (pass through)
    chmods,         \* how many times a directory was closed so far
    events,         \* watcher.Events: the events not yet received
    nextSeq,        \* arrival number of the next event
    watchErrors,    \* watcher.Errors: the errors reported, whether one is
                    \* pending, and nextSeq when the last one was logged
    dpc,            \* the watch loop: "select", "sleep", "await"
    event,          \* the event the watch loop is handling
    sleepLeft,      \* what is left of time.Sleep
    received,       \* arrival number of the last event received
    finished,       \* arrival number of the last event done with
    org,            \* the call of organizeItem for the last event received
    jobQueue,       \* the channel jobQueue
    chans,          \* the result channels made so far: id -> messages
    writes,         \* how many values were sent on each result channel
    wpc,            \* the worker: "idle", "limiter", "permitted", "call"
    job,            \* the job the worker serves
    waitLeft,       \* what is left of the timer of limiter.Wait
    prompt,         \* the request the service is working on
    taken,          \* the result channels of the jobs the worker took
    calls,          \* the calls of the service started so far
    limTokens,      \* the limiter's tokens, in ms of refill
    ctxDone,        \* whether the worker's context is cancelled
    callAge,        \* ms since the last call of the service started
    permitAge       \* ms since the last permit was due (negative: due later)

fsVars == <<dirs, files, nextFile, drops, perms, chmods>>

watchVars == <<events, nextSeq, watchErrors>>

dispatcherVars == <<dpc, event, sleepLeft, received, finished, org>>

channelVars == <<jobQueue, chans, writes>>

workerVars == <<wpc, job, waitLeft, prompt, taken, calls>>

limiterVars == <<limTokens, callAge, permitAge>>

vars == <<config, fsVars, watchVars, dispatcherVars, channelVars, workerVars,
          limiterVars, ctxDone>>

NoEvent == [seq |-> 0, Name |-> EmptyStr, Op |-> {}]

NoJob == [filename |-> EmptyStr, resultCh |-> 0]

NoPrompt == [name |-> EmptyStr, metadata |-> EmptyStr, folders |-> {}, constraint |-> ""]

NoWatchErrors == [reported |-> 0, pending |-> FALSE, loggedAt |-> 0]

NoOrg ==
    [src |-> EmptyStr, target |-> EmptyStr, destDir |-> EmptyStr,
     existed |-> FALSE, replaced |-> FALSE, outcome |-> "none"]

\* What a reply answers: a failure of limiter.Wait.
LimiterFailure == [limiterErr |-> TRUE, err |-> FALSE, text |-> EmptyStr]

\* What a reply answers: an answer of the service.
ServiceAnswer(answer) == [limiterErr |-> FALSE, err |-> answer.err, text |-> answer.text]

\* The limiter holds LimiterBurst tokens at most.
LimiterFull == LimiterBurst * LimiterEveryMs

\* Every directory may be read and searched.
Granted == [noRead |-> {}, noSearch |-> {}]

\* The state main reaches before its loop, whatever rules.yaml holds.
Started ==
    /\ dirs = {Dot, DotDot, Root} \cup {Join(Root, f) : f \in InitialFolders}
    /\ files = [p \in {} |-> 0]
    /\ nextFile = 1
    /\ drops = 0
    /\ perms = Granted
    /\ chmods = 0
    /\ events = << >>
    /\ nextSeq = 1
    /\ watchErrors = NoWatchErrors
    /\ dpc = "select"
    /\ event = NoEvent
    /\ sleepLeft = 0
    /\ received = 0
    /\ finished = 0
    /\ org = NoOrg
    /\ jobQueue = << >>
    /\ chans = [c \in {} |-> << >>]
    /\ writes = [c \in {} |-> 0]
    /\ wpc = "idle"
    /\ job = NoJob
    /\ waitLeft = 0
    /\ prompt = NoPrompt
    /\ taken = {}
    /\ calls = 0
    /\ limTokens = LimiterFull
    /\ ctxDone = FALSE
    /\ callAge = LimiterEveryMs
    /\ permitAge = LimiterEveryMs

Init == config \in Configs /\ Started

(***************************************************************************)
(* The file system.                                                        *)
(***************************************************************************)

\* The path p and the directories above it, as os.MkdirAll makes them.
PathPrefixes(p) ==
    Let(Split(p), LAMBDA segs : {JoinSegs(SubSeq(segs, 1, k)) : k \in 1..Len(segs)})

\* The events the watcher of Root reports for the directories made: one
\* Create for each new entry of Root itself.
MkdirEvents(made) ==
    LET top == {d \in made : Dir(d) = Root}
    IN  IF top = {} THEN << >>
        ELSE <<[Name |-> CHOOSE d \in top : TRUE, Op |-> {"Create"}]>>

\* The events the watcher of Root reports for os.Rename(src, dst).
RenameEvents(src, dst) ==
    IF src = dst THEN << >>
    ELSE (IF Dir(src) = Root THEN <<[Name |-> src, Op |-> {"Rename"}]>> ELSE << >>)
         \o (IF Dir(dst) = Root THEN <<[Name |-> dst, Op |-> {"Create"}]>> ELSE << >>)

\* The queue q with the events es appended, numbered from n on.
Arrive(q, es, n) ==
    q \o [i \in 1..Len(es) |-> [seq |-> n + i - 1, Name |-> es[i].Name, Op |-> es[i].Op]]

\* files after os.Rename(src, dst) succeeds: dst holds what src held, and
\* what dst held before is gone.
Renamed(fs, src, dst) ==
    [p \in (DOMAIN fs \ {src}) \cup {dst} |-> IF p = dst THEN fs[src] ELSE fs[p]]

\* The directories above p.
Ancestors(p) == PathPrefixes(p) \ {p}

\* Whether the system lets the program reach p: every directory above p
\* may be searched.  os.Stat, os.Mkdir and os.Rename of p are refused
\* (EACCES) when it does not.
Searchable(p) ==
    \/ perms.noSearch = {}
    \/ Ancestors(p) \cap perms.noSearch = {}

\* Whether filepath.WalkDir(Root, ...) reaches d without an error: every
\* directory from Root down to the parent of d is read (os.ReadDir), which
\* its own mode and the search of its parent must allow.
Walked(d) ==
    \/ perms = Granted
    \/ \A a \in Ancestors(d) :
            (a = Root \/ HasPrefix(a, Root \o <<Slash>>)) =>
                /\ a \notin perms.noRead
                /\ a = Root \/ Dir(a) \notin perms.noSearch

\* The path p after os.Rename(src, dst) of a directory: what was in src
\* is in dst.
Rebase(p, src, dst) ==
    IF p = src THEN dst
    ELSE IF HasPrefix(p, src \o <<Slash>>)
    THEN dst \o SubSeq(p, Len(src) + 1, Len(p))
    ELSE p

\* filepath.Rel(Root, d) for d under Root.
RelRoot(d) == SubSeq(d, Len(Root) + 2, Len(d))

UnderRoot(d) == HasPrefix(d, Root \o <<Slash>>)

\* getFolderStructure("entropy"): the directories under Root the walk
\* reaches, Root itself left out, each relative to Root.  What the walk
\* cannot read is passed over without a word (line 117).
getFolderStructure ==
    {RelRoot(d) : d \in {x \in dirs : UnderRoot(x) /\ Walked(x)}}

\* getFileMetadata: the extension when os.Stat succeeds, nothing otherwise.
getFileMetadata(path) ==
    IF Searchable(path) /\ (path \in DOMAIN files \/ path \in dirs)
    THEN <<"E","x","t",":"," ">> \o Ext(path)
    ELSE EmptyStr

(***************************************************************************)
(* organizeItem (Mover).  statOk, mkdirOk and renameOk are false when the   *)
(* system refuses the call for a reason of its own (permissions, a full    *)
(* disk); mkdirDone is the number of directories os.MkdirAll makes before  *)
(* it is refused.                                                          *)
(***************************************************************************)
\* os.Stat(path): "found", "notExist" (the only error os.IsNotExist
\* accepts: something on the way is missing), or "error" (the system
\* refuses, or a file is where a directory of the way should be).
Stat(path, statOk) ==
    IF ~statOk \/ ~Searchable(path) THEN "error"
    ELSE IF path \in dirs \/ path \in DOMAIN files THEN "found"
    ELSE IF (PathPrefixes(path) \ {path}) \cap DOMAIN files # {} THEN "error"
    ELSE "notExist"

\* The first n of the directories os.MkdirAll has to make, from the top
\* down.
FirstMissing(missing, n) ==
    {d \in missing : Cardinality({e \in missing : Len(e) < Len(d)}) < n}

\* os.MkdirAll(path): makes what is missing, from the top down.  It fails
\* with nothing made when a file is in the way or a directory on the way
\* may not be searched, and with the first mkdirDone directories made
\* (never the last one) when the system refuses.
MkdirAll(path, mkdirOk, mkdirDone) ==
    Let(PathPrefixes(path), LAMBDA prefixes :
        IF prefixes \cap DOMAIN files # {} \/ ~Searchable(path)
        THEN [ok |-> FALSE, outcome |-> "mkdirFailed", dirs |-> dirs]
        ELSE IF mkdirOk
        THEN [ok |-> TRUE, outcome |-> "made", dirs |-> dirs \cup prefixes]
        ELSE Let(prefixes \ dirs, LAMBDA missing :
                [ok |-> FALSE, outcome |-> "mkdirFailed",
                 dirs |-> dirs \cup
                    FirstMissing(missing,
                                 Min(mkdirDone, Max(0, Cardinality(missing) - 1)))]))

\* With preserve the destination is created whether it exists or not.
EnsureDirIgnoringPreserve(destDir, preserve, statOk, mkdirOk, mkdirDone) ==
    MkdirAll(destDir, mkdirOk, mkdirDone)

\* Lines 240-251.  With preserve, the call is given up only when os.Stat
\* says that the destination does not exist, and goes on to os.Rename after
\* any other answer; without, os.MkdirAll makes the destination.
EnsureDir(destDir, preserve, statOk, mkdirOk, mkdirDone) ==
    IF preserve
    THEN Let(Stat(destDir, statOk), LAMBDA st :
            IF st = "notExist"
            THEN [ok |-> FALSE, outcome |-> "skipped", dirs |-> dirs]
            ELSE [ok |-> TRUE, outcome |-> st, dirs |-> dirs])
    ELSE MkdirAll(destDir, mkdirOk, mkdirDone)

\* os.Rename(srcPath, destPath).  It needs a directory to put the source
\* in, and fails (EEXIST) when the destination is a directory, whatever
\* the source is.  A file takes the place of a file at the destination.
\* A directory is moved with all it holds; its destination is not inside
\* it and is no file.  The system refuses when renameOk is false or when
\* either path cannot be reached.
Rename(srcPath, destPath, dirsNow, renameOk) ==
    LET allowed == /\ renameOk
                   /\ Searchable(srcPath)
                   /\ Searchable(destPath)
                   /\ Dir(destPath) \in dirsNow
                   /\ destPath \notin dirsNow
        moved(p) == Rebase(p, srcPath, destPath)
        same == [ok |-> TRUE, files |-> files, dirs |-> dirsNow, perms |-> perms]
    IN  IF allowed /\ srcPath \in DOMAIN files
        THEN [same EXCEPT !.files = Renamed(files, srcPath, destPath)]
        ELSE IF /\ allowed
                /\ srcPath \in dirsNow
                /\ ~HasPrefix(destPath, srcPath \o <<Slash>>)
                /\ destPath \notin DOMAIN files
        THEN [ok |-> TRUE,
              files |-> [q \in {moved(p) : p \in DOMAIN files} |->
                            files[CHOOSE p \in DOMAIN files : moved(p) = q]],
              dirs |-> {moved(d) : d \in dirsNow},
              perms |-> [noRead |-> {moved(d) : d \in perms.noRead},
                         noSearch |-> {moved(d) : d \in perms.noSearch}]]
        ELSE [same EXCEPT !.ok = FALSE]

\* A failed rename that has already taken the source away.
MoveFileLosingSource(srcPath, destPath, dirsNow, renameOk) ==
    Let(Rename(srcPath, destPath, dirsNow, renameOk), LAMBDA r :
        IF r.ok THEN r
        ELSE [r EXCEPT !.files = [p \in DOMAIN files \ {srcPath} |-> files[p]]])

\* Lines 253-257: os.Rename(srcPath, destPath).
MoveFile(srcPath, destPath, dirsNow, renameOk) ==
    Rename(srcPath, destPath, dirsNow, renameOk)

organizeItem(srcPath, targetFolder, preserve, statOk, mkdirOk, mkdirDone, renameOk) ==
    Let2(Base(srcPath), Join(Root, targetFolder), LAMBDA base, destDir :
    Let2(EnsureDir(destDir, preserve, statOk, mkdirOk, mkdirDone), Join(destDir, base),
         LAMBDA dir, destPath :
    Let(MoveFile(srcPath, destPath, dir.dirs, renameOk), LAMBDA move :
    LET existed == destDir \in dirs \/ destDir \in DOMAIN files
        call == [src |-> srcPath, target |-> targetFolder, destDir |-> destDir,
                 existed |-> existed]
    IN  IF ~dir.ok
        THEN [call |-> call, outcome |-> dir.outcome, replaced |-> FALSE,
              dirs |-> dir.dirs, files |-> files, perms |-> perms,
              emitted |-> MkdirEvents(dir.dirs \ dirs)]
        ELSE IF ~move.ok
        THEN [call |-> call, outcome |-> "renameFailed", replaced |-> FALSE,
              dirs |-> move.dirs, files |-> move.files, perms |-> move.perms,
              emitted |-> MkdirEvents(dir.dirs \ dirs)]
        ELSE [call |-> call, outcome |-> "moved",
              replaced |-> destPath # srcPath /\ destPath \in DOMAIN files,
              dirs |-> move.dirs, files |-> move.files, perms |-> move.perms,
              emitted |-> MkdirEvents(dir.dirs \ dirs) \o RenameEvents(srcPath, destPath)])))

(***************************************************************************)
(* The user, the clock and the context.                                    *)
(***************************************************************************)
\* The user drops a new file into the watched root.
UserDropsFile(name) ==
    LET path == Join(Root, name)
    IN  /\ drops < MaxDrops
        /\ path \notin DOMAIN files
        /\ path \notin dirs
        /\ files' = [p \in DOMAIN files \cup {path} |->
                        IF p = path THEN nextFile ELSE files[p]]
        /\ nextFile' = nextFile + 1
        /\ drops' = drops + 1
        /\ events' = Arrive(events, <<[Name |-> path, Op |-> {"Create"}]>>, nextSeq)
        /\ nextSeq' = nextSeq + 1
        /\ UNCHANGED <<config, dirs, perms, chmods, watchErrors, dispatcherVars,
                       channelVars, workerVars, limiterVars, ctxDone>>

\* TickMs pass: the timers run down, the limiter refills, the ages grow
\* (up to LimiterEveryMs, beyond which nothing depends on them).
Tick ==
    /\ \/ sleepLeft > 0
       \/ waitLeft > 0
       \/ limTokens < LimiterFull
       \/ callAge < LimiterEveryMs
       \/ permitAge < LimiterEveryMs
    /\ sleepLeft' = Max(0, sleepLeft - TickMs)
    /\ waitLeft' = Max(0, waitLeft - TickMs)
    /\ limTokens' = Min(LimiterFull, limTokens + TickMs)
    /\ callAge' = Min(LimiterEveryMs, callAge + TickMs)
    /\ permitAge' = Min(LimiterEveryMs, permitAge + TickMs)
    /\ UNCHANGED <<config, fsVars, watchVars, dpc, event, received, finished, org,
                   channelVars, wpc, job, prompt, taken, calls, ctxDone>>

\* The context handed to suggestFolderWithGenAI is cancelled.
CancelCtx ==
    /\ ~ctxDone
    /\ ctxDone' = TRUE
    /\ UNCHANGED <<config, fsVars, watchVars, dispatcherVars, channelVars,
                   workerVars, limiterVars>>

\* The modes that close a directory to the program: the root may not be
\* read (0300) or not be searched (0600), or one folder directly under the
\* root that holds folders may not be read (0333).
PermChoices ==
    {[noRead |-> {Root}, noSearch |-> {}],
     [noRead |-> {}, noSearch |-> {Root}]}
    \cup {[noRead |-> {d}, noSearch |-> {}] :
            d \in {Dir(x) : x \in {y \in dirs : Dir(Dir(y)) = Root}}}

\* Someone closes a directory (chmod).
Chmod ==
    /\ chmods < MaxChmods
    /\ perms = Granted
    /\ chmods' = chmods + 1
    /\ \E p \in PermChoices : perms' = p
    /\ UNCHANGED <<config, dirs, files, nextFile, drops, watchVars,
                   dispatcherVars, channelVars, workerVars, limiterVars, ctxDone>>

\* Someone opens the directory again (chmod 0755).
ChmodBack ==
    /\ perms # Granted
    /\ perms' = Granted
    /\ UNCHANGED <<config, dirs, files, nextFile, drops, chmods, watchVars,
                   dispatcherVars, channelVars, workerVars, limiterVars, ctxDone>>

\* The watcher reports an error on watcher.Errors.
WatcherFails ==
    /\ watchErrors.reported < MaxErrors
    /\ ~watchErrors.pending
    /\ watchErrors' = [watchErrors EXCEPT !.reported = @ + 1, !.pending = TRUE]
    /\ UNCHANGED <<config, fsVars, events, nextSeq, dispatcherVars, channelVars,
                   workerVars, limiterVars, ctxDone>>

(***************************************************************************)
(* The watch loop of main (Dispatcher).                                    *)
(***************************************************************************)
\* The target trimmed, without the fallback for an empty one.
FinalTargetWithoutFallback(targetFolder) == TrimSpace(targetFolder)

\* The directories os.MkdirAll(path) has to make.
MissingDirs(path) == PathPrefixes(path) \ dirs

\* What the system does with the calls of one organizeItem for a
\* destination of which missing directories have yet to be made: all goes
\* well, or one of the calls is refused.  With preserve these are os.Stat
\* and os.Rename (os.Rename fares after a refused os.Stat as after an
\* accepted one); without, os.MkdirAll and os.Rename (after a refused
\* os.MkdirAll, os.Rename is not called).
SystemAnswers(preserve, missing) ==
    LET ok == [statOk |-> TRUE, mkdirOk |-> TRUE, mkdirDone |-> 0, renameOk |-> TRUE]
    IN  {ok, [ok EXCEPT !.renameOk = FALSE]}
        \cup (IF preserve
               THEN {[ok EXCEPT !.statOk = FALSE]}
               ELSE {[ok EXCEPT !.mkdirOk = FALSE, !.mkdirDone = n] :
                        n \in 0..Max(0, missing - 1)})

\* Lines 329-333: the folder handed to organizeItem.
FinalTarget(targetFolder) ==
    TrimSpace(IF targetFolder = EmptyStr THEN Unsorted ELSE targetFolder)

\* Lines 329-334: the target is resolved, organizeItem is called, and the
\* loop goes back to its select.
Dispatch(targetFolder) ==
    \E folder \in {FinalTarget(targetFolder)} :
    \E sys \in SystemAnswers(config.PreserveStructure,
                             IF config.PreserveStructure THEN 0
                             ELSE Cardinality(MissingDirs(Join(Root, folder)))) :
        \E r \in {organizeItem(event.Name, folder, config.PreserveStructure,
                                sys.statOk, sys.mkdirOk, sys.mkdirDone,
                                sys.renameOk)} :
            /\ dirs' = r.dirs
            /\ files' = r.files
            /\ perms' = r.perms
            /\ events' = Arrive(events, r.emitted, nextSeq)
            /\ nextSeq' = nextSeq + Len(r.emitted)
            /\ org' = [src |-> r.call.src,
                       target |-> r.call.target, destDir |-> r.call.destDir,
                       existed |-> r.call.existed, replaced |-> r.replaced,
                       outcome |-> r.outcome]
            /\ finished' = event.seq
            /\ dpc' = "select"
            /\ event' = NoEvent
            /\ UNCHANGED <<nextFile, drops, chmods, sleepLeft, watchErrors>>

\* Lines 301-302: os.Stat(name) succeeds and tells of a directory.
StatSaysDir(name) == Searchable(name) /\ name \in dirs

\* case event := <-watcher.Events, an event that is not handled: not a
\* creation, what os.Stat tells to be a directory, or not directly under
\* the root (lines 297-309).
DispatcherSkipsEvent ==
    /\ dpc = "select"
    /\ events # << >>
    /\ LET ev == Head(events)
       IN  /\ \/ "Create" \notin ev.Op
              \/ StatSaysDir(ev.Name)
              \/ Dir(ev.Name) # Root
           /\ received' = ev.seq
           /\ finished' = ev.seq
    /\ events' = Tail(events)
    /\ org' = NoOrg
    /\ UNCHANGED <<config, fsVars, nextSeq, watchErrors, dpc, event, sleepLeft,
                   channelVars, workerVars, limiterVars, ctxDone>>

\* The creation of a file taken without the sleep of line 311.
DispatcherReceivesWithoutSettling ==
    /\ dpc = "select"
    /\ events # << >>
    /\ LET ev == Head(events)
       IN  /\ "Create" \in ev.Op
           /\ ~StatSaysDir(ev.Name)
           /\ Dir(ev.Name) = Root
           /\ event' = ev
           /\ received' = ev.seq
    /\ events' = Tail(events)
    /\ dpc' = "sleep"
    /\ sleepLeft' = 0
    /\ org' = NoOrg
    /\ UNCHANGED <<config, fsVars, nextSeq, watchErrors, finished, channelVars,
                   workerVars, limiterVars, ctxDone>>

\* case event := <-watcher.Events, a creation directly under the root
\* that os.Stat does not tell to be a directory (a file, or anything when
\* os.Stat fails): the loop goes to sleep (lines 297-311).
DispatcherReceives ==
    /\ dpc = "select"
    /\ events # << >>
    /\ LET ev == Head(events)
       IN  /\ "Create" \in ev.Op
           /\ ~StatSaysDir(ev.Name)
           /\ Dir(ev.Name) = Root
           /\ event' = ev
           /\ received' = ev.seq
    /\ events' = Tail(events)
    /\ dpc' = "sleep"
    /\ sleepLeft' = SettleMs
    /\ org' = NoOrg
    /\ UNCHANGED <<config, fsVars, nextSeq, watchErrors, finished, channelVars,
                   workerVars, limiterVars, ctxDone>>

\* The error ends the loop, as log.Fatal would.
DispatcherStopsOnError ==
    /\ dpc = "select"
    /\ watchErrors.pending
    /\ watchErrors' = [watchErrors EXCEPT !.pending = FALSE, !.loggedAt = nextSeq]
    /\ dpc' = "stopped"
    /\ UNCHANGED <<config, fsVars, events, nextSeq, event, sleepLeft, received,
                   finished, org, channelVars, workerVars, limiterVars, ctxDone>>

\* case err := <-watcher.Errors: the error is logged and the loop goes on
\* (lines 337-338).
DispatcherLogsError ==
    /\ dpc = "select"
    /\ watchErrors.pending
    /\ watchErrors' = [watchErrors EXCEPT !.pending = FALSE, !.loggedAt = nextSeq]
    /\ UNCHANGED <<config, fsVars, events, nextSeq, dispatcherVars, channelVars,
                   workerVars, limiterVars, ctxDone>>

\* After the sleep, an ignored file (lines 314-319).
DispatcherIgnores ==
    /\ dpc = "sleep"
    /\ sleepLeft = 0
    /\ isIgnored(event.Name, config.Ignore)
    /\ finished' = event.seq
    /\ dpc' = "select"
    /\ event' = NoEvent
    /\ UNCHANGED <<config, fsVars, watchVars, sleepLeft, received, org, channelVars,
                   workerVars, limiterVars, ctxDone>>

\* The job sent without waiting for its reply: the file goes to the
\* fallback at once.
DispatcherEnqueuesWithoutWaiting ==
    /\ dpc = "sleep"
    /\ sleepLeft = 0
    /\ ~isIgnored(event.Name, config.Ignore)
    /\ matchRules(Base(event.Name), config.Rules) = EmptyStr
    /\ config.GptEnabled
    /\ Len(jobQueue) < JobQueueCap
    /\ chans' = [c \in DOMAIN chans \cup {event.seq} |->
                    IF c = event.seq THEN << >> ELSE chans[c]]
    /\ writes' = [c \in DOMAIN writes \cup {event.seq} |->
                    IF c = event.seq THEN 0 ELSE writes[c]]
    /\ jobQueue' = Append(jobQueue, [filename |-> event.Name, resultCh |-> event.seq])
    /\ Dispatch(EmptyStr)
    /\ UNCHANGED <<config, received, workerVars, limiterVars, ctxDone>>

\* After the sleep, no target from the rules and suggestions enabled: a job
\* is sent on jobQueue, with a result channel of its own (lines 320-324).
DispatcherEnqueues ==
    /\ dpc = "sleep"
    /\ sleepLeft = 0
    /\ ~isIgnored(event.Name, config.Ignore)
    /\ matchRules(Base(event.Name), config.Rules) = EmptyStr
    /\ config.GptEnabled
    /\ Len(jobQueue) < JobQueueCap
    /\ chans' = [c \in DOMAIN chans \cup {event.seq} |->
                    IF c = event.seq THEN << >> ELSE chans[c]]
    /\ writes' = [c \in DOMAIN writes \cup {event.seq} |->
                    IF c = event.seq THEN 0 ELSE writes[c]]
    /\ jobQueue' = Append(jobQueue, [filename |-> event.Name, resultCh |-> event.seq])
    /\ dpc' = "await"
    /\ UNCHANGED <<config, fsVars, watchVars, event, sleepLeft, received, finished,
                   org, workerVars, limiterVars, ctxDone>>

\* After the sleep, a target from the rules, or suggestions disabled: the
\* file is placed at once (lines 320-334).
DispatcherResolves ==
    /\ dpc = "sleep"
    /\ sleepLeft = 0
    /\ ~isIgnored(event.Name, config.Ignore)
    /\ LET targetFolder == matchRules(Base(event.Name), config.Rules)
       IN  /\ ~(targetFolder = EmptyStr /\ config.GptEnabled)
           /\ Dispatch(targetFolder)
    /\ UNCHANGED <<config, received, channelVars, workerVars, limiterVars, ctxDone>>

\* targetFolder = <-resultCh: the reply arrives and the file is placed
\* (lines 325-334).
DispatcherGetsReply ==
    /\ dpc = "await"
    /\ chans[event.seq] # << >>
    /\ chans' = [chans EXCEPT ![event.seq] = Tail(@)]
    /\ Dispatch(Head(chans[event.seq]).value)
    /\ UNCHANGED <<config, received, jobQueue, writes, workerVars, limiterVars, ctxDone>>

(***************************************************************************)
(* The limiter (rate.NewLimiter(rate.Every(3*time.Second), 1)).  Tokens    *)
(* are counted in ms of refill: one token is LimiterEveryMs.               *)
(***************************************************************************)
\* A reservation that looks at the tokens before it takes its own.
ReserveBeforeTaking(tokens) ==
    [tokens |-> tokens - LimiterEveryMs, wait |-> Max(0, 0 - tokens)]

\* Limiter.reserveN for one token: the token is taken at once, and the
\* caller waits for as long as the count is below zero.
Reserve(tokens) ==
    LET left == tokens - LimiterEveryMs
    IN  [tokens |-> left, wait |-> Max(0, 0 - left)]

\* Reservation.Cancel: the token goes back unless it is already due.
CancelReservation(tokens, wait) ==
    IF wait > 0 THEN Min(LimiterFull, tokens + LimiterEveryMs) ELSE tokens

(***************************************************************************)
(* The worker started by suggestFolderWithGenAI (SuggestionWorker).        *)
(***************************************************************************)
\* job.resultCh <- value.  The message keeps, beside the value sent, what
\* the value answers and whether the context was done.
Send(ch, value, cause) ==
    /\ Len(chans[ch]) < ResultChCap
    /\ chans' = [chans EXCEPT ![ch] =
                    Append(@, [value |-> value, cause |-> cause, afterCancel |-> ctxDone])]
    /\ writes' = [writes EXCEPT ![ch] = @ + 1]

\* The answer as it comes, not trimmed (as suggestFolderWithGenAI of
\* src/unnamed/part_000 returns it).
ReplyForUntrimmed(answer) ==
    IF answer.err THEN Unsorted
    ELSE IF answer.text = EmptyStr THEN Unsorted ELSE answer.text

\* Lines 183-194: what the worker sends for an answer of the service.
ReplyFor(answer) ==
    IF answer.err THEN Unsorted
    ELSE LET text == TrimSpace(answer.text)
         IN  IF text = EmptyStr THEN Unsorted ELSE text

\* for job := range jobQueue; limiter.Wait(ctx) takes its token and either
\* returns at once or starts its timer (lines 145-146).
WorkerTakesJob ==
    /\ wpc = "idle"
    /\ jobQueue # << >>
    /\ ~ctxDone
    /\ job' = Head(jobQueue)
    /\ jobQueue' = Tail(jobQueue)
    /\ taken' = taken \cup {Head(jobQueue).resultCh}
    /\ LET r == Reserve(limTokens)
       IN  /\ limTokens' = r.tokens
           /\ waitLeft' = r.wait
           /\ wpc' = IF r.wait = 0 THEN "permitted" ELSE "limiter"
           /\ permitAge' = 0 - r.wait
    /\ UNCHANGED <<config, fsVars, watchVars, dispatcherVars, chans, writes, prompt,
                   calls, callAge, ctxDone>>

\* for job := range jobQueue; limiter.Wait(ctx) finds the context done and
\* fails without taking a token: the job is answered "Unsorted" (lines
\* 145-150).
WorkerTakesJobCancelled ==
    /\ wpc = "idle"
    /\ jobQueue # << >>
    /\ ctxDone
    /\ jobQueue' = Tail(jobQueue)
    /\ taken' = taken \cup {Head(jobQueue).resultCh}
    /\ Send(Head(jobQueue).resultCh, Unsorted, LimiterFailure)
    /\ UNCHANGED <<config, fsVars, watchVars, dispatcherVars, wpc, job, waitLeft,
                   prompt, calls, limiterVars, ctxDone>>

\* limiter.Wait(ctx), waiting for its timer, sees the context done: the
\* reservation is cancelled and the job is answered "Unsorted" (lines
\* 146-150).
WorkerWaitCancelled ==
    /\ wpc = "limiter"
    /\ ctxDone
    /\ limTokens' = CancelReservation(limTokens, waitLeft)
    /\ waitLeft' = 0
    /\ Send(job.resultCh, Unsorted, LimiterFailure)
    /\ wpc' = "idle"
    /\ job' = NoJob
    /\ UNCHANGED <<config, fsVars, watchVars, dispatcherVars, jobQueue, prompt, taken,
                   calls, callAge, permitAge, ctxDone>>

\* The permit is there: the folders and the metadata are read, the prompt
\* is put together and the service is called (lines 152-182).
WorkerCallsService ==
    /\ \/ wpc = "permitted"
       \/ wpc = "limiter" /\ waitLeft = 0
    /\ prompt' = [name |-> Base(job.filename),
                  metadata |-> getFileMetadata(job.filename),
                  folders |-> getFolderStructure,
                  constraint |-> IF config.PreserveStructure
                                 THEN "existing folders only"
                                 ELSE "new folders allowed"]
    /\ wpc' = "call"
    /\ calls' = calls + 1
    /\ callAge' = 0
    /\ UNCHANGED <<config, fsVars, watchVars, dispatcherVars, channelVars, job,
                   waitLeft, taken, limTokens, permitAge, ctxDone>>

\* A blank answer left without a reply.
WorkerGetsAnswerDroppingBlank ==
    /\ wpc = "call"
    /\ \E answer \in Answers :
        /\ IF ~answer.err /\ TrimSpace(answer.text) = EmptyStr
           THEN UNCHANGED <<chans, writes>>
           ELSE Send(job.resultCh, ReplyFor(answer), ServiceAnswer(answer))
    /\ wpc' = "idle"
    /\ job' = NoJob
    /\ prompt' = NoPrompt
    /\ UNCHANGED <<config, fsVars, watchVars, dispatcherVars, jobQueue, waitLeft,
                   taken, calls, limiterVars, ctxDone>>

\* client.Models.GenerateContent returns an error or a text, and the worker
\* sends its reply (lines 182-195).  Nothing between the return and the
\* send looks at the context, so what is sent is the same whether the
\* context was cancelled before the return or after it.
WorkerGetsAnswer ==
    /\ wpc = "call"
    /\ \E answer \in Answers :
        /\ Send(job.resultCh, ReplyFor(answer), ServiceAnswer(answer))
    /\ wpc' = "idle"
    /\ job' = NoJob
    /\ prompt' = NoPrompt
    /\ UNCHANGED <<config, fsVars, watchVars, dispatcherVars, jobQueue, waitLeft,
                   taken, calls, limiterVars, ctxDone>>

(***************************************************************************)
(* Specifications.                                                         *)
(***************************************************************************)
\* The program as main starts it: the worker's context is
\* context.Background(), which is never cancelled.
Next ==
    \/ \E name \in FileNames : UserDropsFile(name)
    \/ Tick
    \/ DispatcherSkipsEvent
    \/ DispatcherReceives
    \/ DispatcherIgnores
    \/ DispatcherEnqueues
    \/ DispatcherResolves
    \/ DispatcherGetsReply
    \/ WorkerTakesJob
    \/ WorkerCallsService
    \/ WorkerGetsAnswer

Spec == Init /\ [][Next]_vars

\* The worker under a context its caller may cancel.
NextCtx ==
    \/ Next
    \/ CancelCtx
    \/ WorkerTakesJobCancelled
    \/ WorkerWaitCancelled

SpecCtx == Init /\ [][NextCtx]_vars

\* The scheduling of the program: the watch loop and the worker are
\* goroutines that run when they can, and time passes.
Fairness ==
    /\ WF_vars(Tick)
    /\ WF_vars(DispatcherSkipsEvent)
    /\ WF_vars(DispatcherReceives)
    /\ WF_vars(DispatcherIgnores)
    /\ WF_vars(DispatcherEnqueues)
    /\ WF_vars(DispatcherResolves)
    /\ WF_vars(DispatcherGetsReply)
    /\ WF_vars(WorkerTakesJob)
    /\ WF_vars(WorkerTakesJobCancelled)
    /\ WF_vars(WorkerWaitCancelled)
    /\ WF_vars(WorkerCallsService)
    /\ WF_vars(WorkerGetsAnswer)

FairSpecCtx == SpecCtx /\ Fairness

\* The program with a watcher that reports errors.
NextErr ==
    \/ Next
    \/ WatcherFails
    \/ DispatcherLogsError

\* The configurations the watcher errors are checked under: the rule list
\* of the README, with and without suggestions and preserve_structure.
ConfigsErr ==
    [Rules : {RulesInvoice},
     GptEnabled : BOOLEAN,
     PreserveStructure : BOOLEAN,
     Ignore : IgnoreConfigs]

InitErr == config \in ConfigsErr /\ Started

SpecErr == InitErr /\ [][NextErr]_vars

FairSpecErr == SpecErr /\ Fairness /\ WF_vars(DispatcherLogsError)

\* The program in a tree whose modes change.
NextPerm ==
    \/ Next
    \/ Chmod
    \/ ChmodBack

\* The configurations the modes are checked under: the rule list of the
\* README and suggestions, with and without preserve_structure.
ConfigsPerm ==
    [Rules : {RulesInvoice},
     GptEnabled : {TRUE},
     PreserveStructure : BOOLEAN,
     Ignore : IgnoreConfigs]

InitPerm == config \in ConfigsPerm /\ Started

SpecPerm == InitPerm /\ [][NextPerm]_vars

\* The program with gpt.enabled false: main does not start the worker
\* (line 281), and the watch loop sends no job.
NextNoGpt ==
    \/ \E name \in WideFileNames : UserDropsFile(name)
    \/ Tick
    \/ DispatcherSkipsEvent
    \/ DispatcherReceives
    \/ DispatcherIgnores
    \/ DispatcherResolves

InitNoGpt == config \in ConfigsNoGpt /\ Started

SpecNoGpt == InitNoGpt /\ [][NextNoGpt]_vars

(***************************************************************************)
(* What the properties below speak of.                                     *)
(***************************************************************************)
\* Whether some rule's pattern matches the file name.
AnyRuleMatches(filename, rules) ==
    \E i \in 1..Len(rules) : MatchString(rules[i].Pattern, filename)

\* The first rule whose pattern matches the file name.
FirstMatch(filename, rules) ==
    CHOOSE i \in 1..Len(rules) :
        /\ MatchString(rules[i].Pattern, filename)
        /\ \A j \in 1..(i - 1) : ~MatchString(rules[j].Pattern, filename)

\* The jobs sent and not yet answered: those in the queue and the one the
\* worker serves.
OutstandingJobs ==
    {jobQueue[i] : i \in 1..Len(jobQueue)} \cup (IF wpc = "idle" THEN {} ELSE {job})

\* A step in which the watch loop calls organizeItem.
OrganizeStep == dpc \in {"sleep", "await"} /\ dpc' = "select" /\ org'.outcome # "none"

\* A step in which the worker sends a reply on channel c.
ReplyStep(c) == c \in DOMAIN writes /\ writes'[c] = writes[c] + 1

(***************************************************************************)
(* Properties.                                                             *)
(***************************************************************************)
\* C1: every job gets exactly one value on its result channel, on every
\* path of the worker (limiter failure, service error, blank answer,
\* usable answer): no channel is written twice, a job not yet taken has no
\* reply, and a job the worker has taken and is no longer serving has its
\* reply, so that the worker never turns to the next job with the current
\* one unanswered.
C1_ExactlyOneReply ==
    /\ \A c \in DOMAIN writes : writes[c] <= 1
    /\ \A c \in DOMAIN writes \ taken : writes[c] = 0
    /\ \A c \in taken :
        IF wpc # "idle" /\ job.resultCh = c THEN writes[c] = 0 ELSE writes[c] = 1
    /\ taken \subseteq DOMAIN writes

\* A job answered because limiter.Wait failed, after another job was
\* answered on its own channel.
C1_Witness ==
    \E c \in taken :
        /\ chans[c] # << >>
        /\ Head(chans[c]).cause.limiterErr
        /\ \E d \in taken \ {c} : writes[d] = 1

\* C2: the pipeline is serialized.  The events are received in the order
\* they arrived; the watch loop is done with the event it received last
\* before it receives the next one; at most one job is outstanding at any
\* time, so at most one request is with the service; and every outstanding
\* job and every reply is the one of the event the watch loop is waiting
\* for, so the replies come in the order of the events.
C2_Serialized ==
    /\ \A i \in 1..Len(events) : events[i].seq = received + i
    /\ IF dpc = "select" THEN finished = received
       ELSE finished = received - 1 /\ event.seq = received
    /\ Cardinality(OutstandingJobs) <= 1
    /\ Len(jobQueue) + (IF wpc = "idle" THEN 0 ELSE 1) <= 1
    /\ \A j \in OutstandingJobs : dpc = "await" /\ j.resultCh = event.seq
    /\ \A c \in DOMAIN chans : chans[c] # << >> => dpc = "await" /\ c = event.seq

\* The service is working on the job of the second event while a third
\* event waits to be received.
C2_Witness ==
    /\ wpc = "call"
    /\ dpc = "await"
    /\ received >= 2
    /\ events # << >>
    /\ Cardinality(taken) = 2

\* C3, as stated: a call of the service starts no earlier than
\* LimiterEveryMs after the call before it started.
C3_CallsSpaced ==
    [][(calls' = calls + 1 /\ calls >= 1) => callAge >= LimiterEveryMs]_vars

\* C3, amended: the permits of two jobs in a row are due at least
\* LimiterEveryMs apart, and the service is called for a job no earlier
\* than its permit is due; so the second job's call starts no earlier than
\* LimiterEveryMs after the first job's permit was due.
C3_PermitsSpaced ==
    [][/\ taken' # taken => permitAge + waitLeft' >= LimiterEveryMs
       /\ calls' = calls + 1 => waitLeft = 0 /\ permitAge >= 0 /\ job.resultCh \in taken]_vars

\* The second call of the service has started, less than LimiterEveryMs
\* after the first one.
C3_Witness == calls = 2 /\ wpc = "call" /\ callAge = 0 /\ permitAge < LimiterEveryMs

\* C4, as stated: while the watch loop waits for the reply to a job, no
\* rule's pattern matches the name of the file the job is about, for every
\* rule list, rules with an empty target included: a match never leads to
\* a job.
C4_NoJobOnMatch ==
    dpc = "await" => ~AnyRuleMatches(Base(event.Name), config.Rules)

C6_NoFileLost ==
    \A content \in 1..(nextFile - 1) : \E p \in DOMAIN files : files[p] = content

\* C7: when organizeItem is called with preserve_structure set and the
\* destination folder is not there, no directory is made, no file is
\* moved, and the source file is still at its path; for every way the
\* destination was resolved.  The call is given up as a skip when os.Stat
\* says that the folder does not exist; when os.Stat fails in another way
\* (the system refuses it, or a file is where a folder of the way should
\* be) os.Rename is tried and fails.
C7_PreserveSkipsMissingFolder ==
    [][(/\ OrganizeStep
        /\ config.PreserveStructure
        /\ Join(Root, org'.target) \notin dirs
        /\ Join(Root, org'.target) \notin DOMAIN files) =>
          /\ org'.outcome \in {"skipped", "renameFailed"}
          /\ dirs' = dirs
          /\ files' = files
          /\ event.Name \in DOMAIN files'
          /\ events' = events]_vars

\* The fallback "Unsorted" was refused because the folder is missing.
C7_Witness ==
    /\ config.PreserveStructure
    /\ org.outcome = "skipped"
    /\ org.target = Unsorted
    /\ org.src \in DOMAIN files

\* C8: when os.MkdirAll or os.Rename fails, no file changes: the source
\* file is still at its path and nothing was put at the destination; and
\* the watch loop is back at its select, ready for the next event.
C8_FailureLeavesSource ==
    [][(OrganizeStep /\ org'.outcome \in {"mkdirFailed", "renameFailed"}) =>
          /\ files' = files
          /\ event.Name \in DOMAIN files'
          /\ dpc' = "select"]_vars

\* os.Rename has failed after os.MkdirAll made the destination folder.
C8_Witness ==
    /\ org.outcome = "renameFailed"
    /\ org.destDir \in dirs
    /\ ~org.existed
    /\ org.src \in DOMAIN files
    /\ dpc = "select"

\* C9: once the worker's context is cancelled, every reply the worker
\* sends is "Unsorted", that of a job whose call of the service was under
\* way included; a reply to a failure of limiter.Wait is sent without a
\* call of the service; and a watch loop waiting for a reply gets on.
C9_CancelledJobsFallBack ==
    /\ [][\A c \in DOMAIN writes :
            (ReplyStep(c) /\ ctxDone) =>
                LET m == chans'[c][Len(chans'[c])]
                IN  /\ m.value = Unsorted
                    /\ m.cause.limiterErr => (calls' = calls /\ wpc' = "idle")]_vars
    /\ (ctxDone /\ dpc = "await") ~> (dpc = "select")

\* C10, as stated: for the file name the watch loop is about to match,
\* matchRules gives the target of the first rule whose pattern matches,
\* and its answer for "no rule matches" (the empty string) is given exactly
\* when no rule matches.
C10_MatchRuleContract ==
    dpc = "sleep" =>
        LET name == Base(event.Name)
            rules == config.Rules
        IN  IF AnyRuleMatches(name, rules)
            THEN /\ matchRules(name, rules) = rules[FirstMatch(name, rules)].Target
                 /\ matchRules(name, rules) # EmptyStr
            ELSE matchRules(name, rules) = EmptyStr

\* C11: isIgnored is true exactly when one of its criteria holds: the base
\* name begins with "._", whatever the ignore lists hold; os_defaults is
\* set and the base name is .DS_Store, Thumbs.db or desktop.ini; the base
\* name is one of files; the extension, in lower case, is one of
\* extensions in lower case; the path contains one of folders.  And the
\* watch loop leaves a file alone exactly when isIgnored is true of it.
C11_IgnoredIffCriterion ==
    [][(dpc = "sleep" /\ dpc' # "sleep") =>
          LET path == event.Name
              cfg == config.Ignore
              base == SubSeq(path, Len(Root) + 2, Len(path))
              dots == {i \in 1..Len(base) : base[i] = "."}
              ext == IF dots = {} THEN EmptyStr
                     ELSE SubSeq(base, CHOOSE i \in dots : \A j \in dots : j <= i,
                                 Len(base))
              criterion ==
                  \/ Len(base) >= 2 /\ SubSeq(base, 1, 2) = <<".", "_">>
                  \/ /\ cfg.OSDefaults
                     /\ base \in { <<".","D","S","_","S","t","o","r","e">>,
                                   <<"T","h","u","m","b","s",".","d","b">>,
                                   <<"d","e","s","k","t","o","p",".","i","n","i">> }
                  \/ \E i \in 1..Len(cfg.Files) : cfg.Files[i] = base
                  \/ \E i \in 1..Len(cfg.Extensions) :
                        ToLower(cfg.Extensions[i]) = ToLower(ext)
                  \/ \E i \in 1..Len(cfg.Folders) :
                        \E k \in 0..(Len(path) - Len(cfg.Folders[i])) :
                            SubSeq(path, k + 1, k + Len(cfg.Folders[i])) = cfg.Folders[i]
          IN  /\ isIgnored(path, cfg) <=> criterion
              /\ criterion <=> (org' = NoOrg /\ UNCHANGED <<dirs, files, events>>)]_vars

\* a.LOG was ignored for extensions: [".log"], and "._a" although every
\* ignore list is empty.
C11_Witness ==
    /\ dpc = "select"
    /\ events = << >>
    /\ org = NoOrg
    /\ \/ /\ config.Ignore = ReadmeIgnore
          /\ DOMAIN files = {Root \o <<Slash>> \o FileLog, Root \o <<Slash>> \o FileTmp}
       \/ /\ config.Ignore = NoIgnore
          /\ DOMAIN files = {Root \o <<Slash>> \o FileHidden}

\* C12: an event that is no creation, that names a directory, whose parent
\* is not the watched root, or whose path isIgnored accepts, is done with
\* in one step that changes no directory and no file, sends no job, starts
\* no call of the service, calls organizeItem not at all and leaves the
\* loop at its select.  And no event ever arrives for a file lying in a
\* subfolder, so a file once moved there is not handled again.
C12_SkippedEventNoEffect ==
    /\ [][(received' # received /\
            LET ev == Head(events)
            IN  \/ "Create" \notin ev.Op
                \/ ev.Name \in dirs
                \/ Dir(ev.Name) # Root) =>
              /\ dpc' = "select"
              /\ org' = NoOrg
              /\ finished' = received'
              /\ events' = Tail(events)
              /\ UNCHANGED <<dirs, files, jobQueue, chans, writes, wpc, calls>>]_vars
    /\ [][(dpc = "sleep" /\ dpc' # "sleep" /\ isIgnored(event.Name, config.Ignore)) =>
              /\ dpc' = "select"
              /\ org' = NoOrg
              /\ finished' = received
              /\ UNCHANGED <<dirs, files, events, jobQueue, chans, writes, wpc, calls>>]_vars
    /\ [](\A p \in DOMAIN files :
            Dir(p) # Root =>
                /\ event = NoEvent \/ event.Name # p
                /\ \A i \in 1..Len(events) : events[i].Name # p)

\* Arrival numbers of the events of a run: every dropped file makes at most
\* three (its creation, the creation of a folder, its renaming).
EventNumbers == 1..(3 * MaxDrops)

\* C13: the watch loop never stops.  It is back at its select after it
\* logs an error of the watcher and after every call of organizeItem,
\* whatever its outcome; and every event that arrives is eventually done
\* with (skipped, ignored, or handed to organizeItem), whatever errors the
\* watcher reported, the service answered and the system gave to
\* os.MkdirAll and os.Rename before.  Arrival numbers and the number of
\* the last event done with only grow, so "event n, once arrived, is
\* eventually done with" is: again and again, event n has not arrived or
\* is done with.
C13_LoopNeverStops ==
    /\ [][(watchErrors.pending /\ ~watchErrors'.pending) => dpc' = "select"]_vars
    /\ [][OrganizeStep => dpc' = "select"]_vars
    /\ [][nextSeq' >= nextSeq /\ finished' >= finished]_vars
    /\ \A n \in EventNumbers : []<>(nextSeq > n => finished >= n)

\* An error of the watcher was logged, and an event that arrived after it
\* has been handed to organizeItem, which moved the file.
C13_Witness ==
    /\ watchErrors.reported = 1
    /\ ~watchErrors.pending
    /\ finished >= watchErrors.loggedAt
    /\ received = finished
    /\ org.outcome = "moved"

C15_TargetNeverEmptyNorPadded ==
    org.outcome # "none" => org.target # EmptyStr /\ org.target = TrimSpace(org.target)

\* C16, as stated: the settle delay elapses before the file is inspected
\* in any way, the stat that tells files from directories included:
\* whatever a creation event directly under the root names, the watch loop
\* sleeps SettleMs before it decides anything about it.
C16_SettleBeforeAnyInspection ==
    [][(/\ received' # received
        /\ "Create" \in Head(events).Op
        /\ Dir(Head(events).Name) = Root) =>
            dpc' = "sleep" /\ sleepLeft' = SettleMs]_vars

\* C16, amended: the steps for a creation event come in the order
\* received with os.Stat and the parent test, sleep of SettleMs, ignore
\* check, rule match, the wait for a suggestion if one is asked for,
\* resolution, organizeItem.  The stat and the parent test are made when
\* the event is received, before the sleep; the sleep has run out before
\* isIgnored and matchRules decide; an ignored file gets no rule match, no
\* job and no move; a job is sent only after the rules gave nothing; and
\* organizeItem, the only step that changes folders or moves a file, gets
\* the target the rules or the reply resolved to.
C16_StepOrder ==
    /\ [][received' # received =>
            /\ dpc = "select"
            /\ IF /\ "Create" \in Head(events).Op
                  /\ ~StatSaysDir(Head(events).Name)
                  /\ Dir(Head(events).Name) = Root
               THEN dpc' = "sleep" /\ sleepLeft' = SettleMs /\ event' = Head(events)
               ELSE dpc' = "select" /\ finished' = received']_vars
    /\ [][(dpc = "sleep" /\ dpc' # "sleep") =>
            /\ sleepLeft = 0
            /\ IF isIgnored(event.Name, config.Ignore)
               THEN dpc' = "select" /\ org' = NoOrg /\ jobQueue' = jobQueue
               ELSE IF matchRules(Base(event.Name), config.Rules) = EmptyStr
                       /\ config.GptEnabled
               THEN /\ dpc' = "await"
                    /\ org' = NoOrg
                    /\ jobQueue' = Append(jobQueue, [filename |-> event.Name,
                                                     resultCh |-> event.seq])
               ELSE /\ OrganizeStep
                    /\ jobQueue' = jobQueue
                    /\ org'.target =
                          FinalTarget(matchRules(Base(event.Name), config.Rules))]_vars
    /\ [][(dpc = "await" /\ dpc' # "await") =>
            /\ chans[event.seq] # << >>
            /\ OrganizeStep
            /\ org'.target = FinalTarget(Head(chans[event.seq]).value)]_vars
    /\ [][dpc' = "await" => dpc \in {"sleep", "await"}]_vars
    /\ [][(dirs' # dirs \/ (files' # files /\ drops' = drops)) => OrganizeStep]_vars
    /\ [](dpc = "sleep" => "Create" \in event.Op /\ Dir(event.Name) = Root)

\* The first event went through every step, the wait for a suggestion
\* included, and its file was moved; the event of the folder made for it
\* waits to be skipped.
C16_Witness ==
    /\ dpc = "select"
    /\ finished = 1
    /\ calls = 1
    /\ org.outcome = "moved"
    /\ events # << >>
    /\ Head(events).Name \in dirs

\* C17: the folders in the prompt of a job are those of the tree as it is
\* for that job.  While the service is called for the job of event N, all
\* events that arrived before N are done with, the watch loop waits for
\* this job's reply, the prompt lists every directory below the root that
\* was made since the program started (the ones earlier moves made) and
\* nothing that is no directory below the root; and no directory is made
\* between the snapshot and the reply.
C17_SnapshotIsCurrent ==
    /\ [](wpc = "call" =>
            /\ dpc = "await"
            /\ event.seq = job.resultCh
            /\ finished = job.resultCh - 1
            /\ \A d \in dirs :
                  (/\ Len(d) > Len(Root) + 1
                   /\ SubSeq(d, 1, Len(Root) + 1) = Root \o <<Slash>>
                   /\ SubSeq(d, Len(Root) + 2, Len(d)) \notin InitialFolders) =>
                      SubSeq(d, Len(Root) + 2, Len(d)) \in prompt.folders
            /\ \A f \in prompt.folders : (Root \o <<Slash>> \o f) \in dirs)
    /\ [][wpc = "call" => dirs' = dirs]_vars

\* C18: jobQueue never holds more than one job, so it is never full and
\* the send of line 324 never waits: a job is in the queue only while the
\* watch loop waits for its reply and the worker is free, and the queue is
\* empty whenever the watch loop is about to send.
C18_QueueHoldsAtMostOne ==
    /\ Len(jobQueue) <= 1
    /\ Len(jobQueue) < JobQueueCap
    /\ jobQueue # << >> =>
          /\ dpc = "await"
          /\ wpc = "idle"
          /\ Head(jobQueue).resultCh = event.seq
    /\ dpc = "sleep" => jobQueue = << >>

\* The job of a later event lies in the queue, after the one of an earlier
\* event was taken and answered.
C18_Witness ==
    /\ Len(jobQueue) = 1
    /\ Head(jobQueue).resultCh > 1
    /\ taken # {}

\* C19: the worker never waits to send a reply.  The result channel of
\* every job not yet answered is there, is empty and was never written
\* to, so it has room; wherever the worker is about to send, the step that
\* sends can be taken; no channel ever holds more than ResultChCap values
\* or gets a second write; and the send leaves the worker free for the
\* next job while the watch loop has not taken the reply yet.
C19_ReplyNeverBlocks ==
    /\ [](\A j \in OutstandingJobs :
            /\ j.resultCh \in DOMAIN chans
            /\ chans[j.resultCh] = << >>
            /\ writes[j.resultCh] = 0
            /\ Len(chans[j.resultCh]) < ResultChCap)
    /\ [](\A c \in DOMAIN chans : Len(chans[c]) <= ResultChCap /\ writes[c] <= 1)
    /\ [](wpc = "call" => ENABLED WorkerGetsAnswer)
    /\ []((wpc = "limiter" /\ ctxDone) => ENABLED WorkerWaitCancelled)
    /\ []((wpc = "idle" /\ jobQueue # << >> /\ ctxDone) => ENABLED WorkerTakesJobCancelled)
    /\ [][(DOMAIN writes' = DOMAIN writes /\ writes' # writes) =>
            /\ wpc' = "idle"
            /\ dpc = "await" /\ dpc' = "await"
            /\ Len(chans'[event.seq]) = 1]_vars

\* A reply lies in its channel, the worker is free again, and the watch
\* loop has not taken the reply yet.
C19_Witness ==
    /\ dpc = "await"
    /\ wpc = "idle"
    /\ jobQueue = << >>
    /\ Len(chans[event.seq]) = 1
    /\ writes[event.seq] = 1

\* C20, as stated: whatever target a rule gives, ".." segments, "." and
\* absolute paths included, every file lies under the watched root, every
\* directory the program made lies under it, and a file organizeItem
\* moved went into a folder below the root, not into the root itself.
C20_PlacedStrictlyInsideRoot ==
    /\ \A p \in DOMAIN files : UnderRoot(p)
    /\ \A d \in dirs \ {Dot, DotDot, Root} : UnderRoot(d)
    /\ org.outcome = "moved" => UnderRoot(org.destDir)

====
